---- MODULE Spec2Model ----
(***************************************************************************)
(* Model of zip_prompt.py: the geocode resolver, the override store, the   *)
(* waybar notifier and the Tk dialog that wires them together.             *)
(*                                                                         *)
(* Text is a sequence of Unicode code points; a Python value that may be   *)
(* None is a sequence of length at most one (None is <<>>, x is <<x>>).    *)
(***************************************************************************)
EXTENDS Integers, Sequences, FiniteSets, TLC

\* ------------------------------------------------------------------ bounds
\* longest argument handed to geocode / save_override when called directly
MaxLen == 3
\* longest text typed into the dialog's entry field
MaxEntryLen == 2
\* longest argument of a sequence of save_override calls
MaxSaveLen == 2
\* longest sequence of save_override calls
MaxCalls == 3

\* ------------------------------------------------------- characters, text
SPACE == 32
COMMA == 44
\* space, comma, "5", "P", e-acute (two bytes in UTF-8)
Alphabet == {SPACE, COMMA, 53, 80, 233}
\* the characters typed into the dialog
EntryAlphabet == {SPACE, 53, 80}
\* the characters of the arguments of save_override
StoreAlphabet == {SPACE, 53, 233}
\* str.strip() with no argument strips whitespace
Whitespace == {9, 10, 11, 12, 13, SPACE}
\* the characters str.isdigit() accepts, among those of Alphabet
Digits == 48..57

\* the texts over A of length at most n
StrOver(A, n) == UNION {[1..k -> A] : k \in 0..n}

None == <<>>
Some(x) == <<x>>

\* mutant of Strip: the text is used as it was typed
NoStrip(s) == s

\* str.strip()
RECURSIVE Strip(_)
Strip(s) ==
    IF s = <<>> THEN s
    ELSE IF Head(s) \in Whitespace THEN Strip(Tail(s))
    ELSE IF s[Len(s)] \in Whitespace THEN Strip(SubSeq(s, 1, Len(s) - 1))
    ELSE s

\* str.replace(c, "")
Remove(s, c) == SelectSeq(s, LAMBDA x : x # c)

\* str.isdigit(): at least one character, and all of them digits
IsDigit(s) == s # <<>> /\ \A i \in 1..Len(s) : s[i] \in Digits

\* c in s
Contains(s, c) == \E i \in 1..Len(s) : s[i] = c

\* dict.get(k): the value, or None
Get(d, k) == IF k \in DOMAIN d THEN Some(d[k]) ELSE None

\* truth value of an optional text: None and "" are false
Truthy(o) == o # None /\ o[1] # <<>>

\* ------------------------------------------------------ upstream responses
\* the values the geocoding API puts in the fields of a match
FieldValue == [lat |-> 34, lon |-> 0 - 118, name |-> <<66>>,
               country |-> <<85, 83>>, state |-> <<67, 65>>]

\* JSON objects carrying any subset of the fields
Pick(K) == [k \in K |-> FieldValue[k]]
Dicts == {Pick(K) : K \in SUBSET (DOMAIN FieldValue)}
\* the objects the dialog's upstream answers with
DialogDicts == {Pick({"lat"}), Pick({"lat", "lon"}), Pick(DOMAIN FieldValue)}

\* the bodies json.loads accepts: an object, a list of objects, anything else
JsonOver(D) ==
    {[type |-> "dict", v |-> d] : d \in D}
    \cup {[type |-> "list", v |-> <<>>]}
    \cup {[type |-> "list", v |-> <<d>>] : d \in D}
    \cup {[type |-> "other", v |-> 0]}

\* what str(e) reads for a timeout, an HTTP status, a DNS failure, a bad body
Causes == {"timed out", "HTTP Error 404: Not Found",
           "<urlopen error [Errno -2] Name or service not known>",
           "Expecting value: line 1 column 1 (char 0)"}

\* what urlopen + json.loads do with one request: raise, or yield a value
ResponsesOver(C, D) ==
    {[kind |-> "raise", cause |-> c] : c \in C}
    \cup {[kind |-> "json", data |-> j] : j \in JsonOver(D)}
Responses == ResponsesOver(Causes, Dicts)
DialogResponses ==
    ResponsesOver({"timed out", "Expecting value: line 1 column 1 (char 0)"}, DialogDicts)

VARIABLES
    API_KEY,      \* the module global read from OWM_API_KEY: None or <<key>>
    entry,        \* text of the entry widget
    status_var,   \* status line
    result_var,   \* result line
    save_btn,     \* state of the Save button: "disabled" or "normal"
    current_raw,  \* current_raw["value"]: None or <<raw_query>>
    alive,        \* the root window exists
    check_ret,    \* (info, err) of do_check's most recent call of geocode
    last_ok,      \* raw_query of the most recent geocode result do_check got
    dirExists,    \* CACHE_DIR exists
    file,         \* bytes of OVERRIDE_FILE: None (absent) or <<bytes>>
    handler,      \* the callback that ran most recently
    effects,      \* the external operations that callback performed, in order
    escaped,      \* the exception that left that callback: None or <<name>>
    call          \* most recent direct call of geocode / save_override

vars == <<API_KEY, entry, status_var, result_var, save_btn, current_raw, alive,
          check_ret, last_ok, dirExists, file, handler, effects, escaped, call>>

Key == "k"

\* ------------------------------------------------------------- geocode
\* mutant of IsZip: only the commas are removed before the digit test
IsZipKeepsSpaces(q) == IsDigit(Remove(q, COMMA))

\* line 24
IsZip(q) == IsDigit(Remove(Remove(q, COMMA), SPACE))

\* line 26
ZipParam(q) == IF Contains(q, COMMA) THEN q ELSE q \o <<COMMA, 85, 83>>

\* lines 25-35: the request the URL encodes
Request(q) ==
    IF IsZip(q)
    THEN [endpoint |-> "zip", zip |-> ZipParam(q), appid |-> API_KEY[1]]
    ELSE [endpoint |-> "direct", q |-> q, limit |-> 1, appid |-> API_KEY[1]]

\* lines 44-50
ZipResult(q, data) ==
    IF data.type # "dict" \/ "lat" \notin DOMAIN data.v \/ "lon" \notin DOMAIN data.v
    THEN [info |-> None, err |-> Some("No result")]
    ELSE LET name == IF Truthy(Get(data.v, "name")) THEN data.v["name"]
                     ELSE <<90, 73, 80, SPACE>> \o q
             country == Get(data.v, "country")
             label == IF Truthy(country) THEN name \o <<COMMA, SPACE>> \o country[1]
                      ELSE name
         IN [info |-> Some([label |-> label, lat |-> Some(data.v["lat"]),
                            lon |-> Some(data.v["lon"]), raw_query |-> q]),
             err |-> None]

\* lines 51-68
DirectResult(q, data) ==
    IF data.type # "list" \/ data.v = <<>>
    THEN [info |-> None, err |-> Some("No result")]
    ELSE LET first == data.v[1]
             name == IF Truthy(Get(first, "name")) THEN first["name"] ELSE q
             country == Get(first, "country")
             state == Get(first, "state")
             label1 == IF Truthy(country) THEN name \o <<COMMA, SPACE>> \o country[1]
                       ELSE name
             label2 == IF Truthy(state) THEN label1 \o <<SPACE, 40>> \o state[1] \o <<41>>
                       ELSE label1
         IN [info |-> Some([label |-> label2, lat |-> Get(first, "lat"),
                            lon |-> Get(first, "lon"), raw_query |-> q]),
             err |-> None]

\* geocode(query), resp being what the upstream does with the request if one
\* is made.  The return value is info and err; reqs lists the requests issued
\* and caught is the exception the except clause caught.
geocode(query, resp) ==
    IF API_KEY = None \/ API_KEY[1] = ""
    THEN [info |-> None, err |-> Some("Missing OWM_API_KEY"), reqs |-> <<>>,
          caught |-> None]
    ELSE LET q == Strip(query) IN
         IF q = <<>>
         THEN [info |-> None, err |-> Some("Enter a ZIP or city"), reqs |-> <<>>,
               caught |-> None]
         ELSE LET req == Request(q) IN
              IF resp.kind = "raise"
              THEN [info |-> None, err |-> Some("Request error: " \o resp.cause),
                    reqs |-> <<req>>, caught |-> Some(resp.cause)]
              ELSE LET r == IF IsZip(q) THEN ZipResult(q, resp.data)
                            ELSE DirectResult(q, resp.data)
                   IN [info |-> r.info, err |-> r.err, reqs |-> <<req>>,
                       caught |-> None]

\* ------------------------------------------------------ override store
\* str.encode("utf-8") of one code point
EncodeChar(c) ==
    IF c < 128 THEN <<c>>
    ELSE IF c < 2048 THEN <<192 + (c \div 64), 128 + (c % 64)>>
    ELSE <<224 + (c \div 4096), 128 + ((c \div 64) % 64), 128 + (c % 64)>>

\* what f.write(text) puts in a file opened with encoding="utf-8"
RECURSIVE UTF8Encode(_)
UTF8Encode(s) ==
    IF s = <<>> THEN <<>> ELSE EncodeChar(Head(s)) \o UTF8Encode(Tail(s))

\* reading the file back as UTF-8 text
RECURSIVE UTF8Decode(_)
UTF8Decode(b) ==
    IF b = <<>> THEN <<>>
    ELSE IF b[1] < 128 THEN <<b[1]>> \o UTF8Decode(Tail(b))
    ELSE IF b[1] < 224
         THEN <<(b[1] - 192) * 64 + (b[2] - 128)>> \o UTF8Decode(SubSeq(b, 3, Len(b)))
    ELSE <<(b[1] - 224) * 4096 + (b[2] - 128) * 64 + (b[3] - 128)>>
         \o UTF8Decode(SubSeq(b, 4, Len(b)))

\* what the file system does with one save: everything works, os.makedirs
\* raises, open raises, or the write raises after open has truncated the file
FsOutcomes == {"ok", "makedirs_fails", "open_fails", "write_fails"}

\* os.makedirs(..., exist_ok=True) cannot fail on a directory that exists
PossibleFs == IF dirExists THEN FsOutcomes \ {"makedirs_fails"} ELSE FsOutcomes

Effect(op, result) == [op |-> op, result |-> result]

\* mutant of FileAfterWrite: the file is opened with mode "a"
FileAfterAppend(old, text) == (IF old = None THEN <<>> ELSE old[1]) \o UTF8Encode(text)

\* a file opened with mode "w" holds what is written and nothing of old
FileAfterWrite(old, text) == UTF8Encode(text)

\* save_override(raw_query) under file-system outcome fs: the directory and
\* file afterwards, the operations performed and the exception raised
save_override(raw_query, fs) ==
    IF ~dirExists /\ fs = "makedirs_fails"
    THEN [dir |-> FALSE, file |-> file, raised |-> Some("OSError"),
          effects |-> <<Effect("makedirs", "error")>>]
    ELSE IF fs = "open_fails"
    THEN [dir |-> TRUE, file |-> file, raised |-> Some("OSError"),
          effects |-> <<Effect("makedirs", "ok"), Effect("open", "error")>>]
    ELSE IF fs = "write_fails"
    THEN [dir |-> TRUE, file |-> Some(<<>>), raised |-> Some("OSError"),
          effects |-> <<Effect("makedirs", "ok"), Effect("open", "ok"),
                        Effect("write", "error")>>]
    ELSE [dir |-> TRUE, file |-> Some(FileAfterWrite(file, Strip(raw_query))),
          raised |-> None,
          effects |-> <<Effect("makedirs", "ok"), Effect("open", "ok"),
                        Effect("write", "ok")>>]

\* ------------------------------------------------------------- notifier
\* pkill signals waybar, finds no such process, may not signal it, or is not
\* installed
NotifyOutcomes == {"signalled", "no_process", "not_permitted", "pkill_missing"}

\* subprocess.run([...], check=False): the exit status is ignored; a missing
\* executable raises
SubprocessRun(o) ==
    [effects |-> <<Effect("pkill", o)>>,
     raised |-> IF o = "pkill_missing" THEN Some("FileNotFoundError") ELSE None]

\* mutant of reload_waybar: no try around subprocess.run
reload_waybar_unguarded(o) == SubprocessRun(o)

\* reload_waybar(): try / except Exception: pass
reload_waybar(o) ==
    LET r == SubprocessRun(o) IN [effects |-> r.effects, raised |-> None]

NoCall == [fn |-> "none", n |-> 0]
NoRet == [info |-> None, err |-> None]

\* a file left by an earlier run: "9"
OldContent == <<57>>

\* the state main() builds before the event loop starts, with the environment
\* (credential, cache directory) left open
InitEnv ==
    /\ API_KEY \in {None, Some(""), Some(Key)}
    /\ dirExists \in BOOLEAN
    /\ file \in (IF dirExists THEN {None, Some(OldContent)} ELSE {None})
InitDialog ==
    /\ entry = <<>>
    /\ status_var = "Enter location and press Check"
    /\ result_var = <<>>
    /\ save_btn = "disabled"
    /\ current_raw = None
    /\ alive = TRUE
    /\ check_ret = NoRet
    /\ last_ok = None
    /\ handler = "none"
    /\ effects = <<>>
    /\ escaped = None
    /\ call = NoCall

\* ---------------------------------------------- geocode called directly
CallGeocode ==
    /\ call = NoCall
    /\ \E query \in StrOver(Alphabet, MaxLen), resp \in Responses :
           call' = [fn |-> "geocode", n |-> 1, arg |-> query, ret |-> geocode(query, resp)]
    /\ UNCHANGED <<API_KEY, entry, status_var, result_var, save_btn, current_raw,
                   alive, check_ret, last_ok, dirExists, file, handler, effects,
                   escaped>>

InitGeocode == InitEnv /\ InitDialog
SpecGeocode == InitGeocode /\ [][CallGeocode]_vars

\* ------------------------------------------- save_override called directly
CallSaveOverride ==
    /\ call.n < MaxCalls
    /\ \E raw_query \in StrOver(StoreAlphabet, MaxSaveLen), fs \in PossibleFs :
           LET s == save_override(raw_query, fs) IN
           /\ dirExists' = s.dir
           /\ file' = s.file
           /\ call' = [fn |-> "save_override", n |-> call.n + 1, arg |-> raw_query,
                       raised |-> s.raised]
    /\ UNCHANGED <<API_KEY, entry, status_var, result_var, save_btn, current_raw,
                   alive, check_ret, last_ok, handler, effects, escaped>>

InitStore == InitEnv /\ InitDialog
SpecStore == InitStore /\ [][CallSaveOverride]_vars

\* ------------------------------------------------------------- the dialog
ARROW == 8594

\* mutant of CheckOutcome: the result text and the Save button are not reset
\* before geocode is called
CheckOutcomeNoReset(r) ==
    LET urlopens == [i \in DOMAIN r.reqs |->
                        Effect("urlopen", IF r.caught # None THEN "error" ELSE "ok")]
    IN IF r.err # None /\ r.err[1] # ""
       THEN [status |-> r.err[1], result |-> result_var, save |-> save_btn,
             raw |-> current_raw, effects |-> urlopens]
       ELSE IF r.info = None
       THEN [status |-> "No result", result |-> result_var, save |-> save_btn,
             raw |-> current_raw, effects |-> urlopens]
       ELSE [status |-> "OK", result |-> <<ARROW, SPACE>> \o r.info[1].label,
             save |-> "normal", raw |-> Some(r.info[1].raw_query),
             effects |-> urlopens]

\* lines 119-131: what do_check does with geocode's return value r
CheckOutcome(r) ==
    LET urlopens == [i \in DOMAIN r.reqs |->
                        Effect("urlopen", IF r.caught # None THEN "error" ELSE "ok")]
    IN IF r.err # None /\ r.err[1] # ""
       THEN [status |-> r.err[1], result |-> <<>>, save |-> "disabled",
             raw |-> current_raw, effects |-> urlopens]
       ELSE IF r.info = None
       THEN [status |-> "No result", result |-> <<>>, save |-> "disabled",
             raw |-> current_raw, effects |-> urlopens]
       ELSE [status |-> "OK", result |-> <<ARROW, SPACE>> \o r.info[1].label,
             save |-> "normal", raw |-> Some(r.info[1].raw_query),
             effects |-> urlopens]

\* mutant of do_check: a request that raised is sent a second time
do_check_retry(resp) ==
    LET r == geocode(Strip(entry), resp)
    IN CheckOutcome(IF r.caught # None THEN [r EXCEPT !.reqs = r.reqs \o r.reqs] ELSE r)

\* do_check(), resp being what the upstream does with the request
do_check(resp) ==
    LET q == Strip(entry)
    IN CheckOutcome(geocode(q, resp))

\* a click on Check, or <Return> in the entry
DoCheck ==
    /\ alive
    /\ \E resp \in DialogResponses :
         LET r == geocode(Strip(entry), resp)
             c == do_check(resp)
         IN /\ check_ret' = [info |-> r.info, err |-> r.err]
            /\ last_ok' = IF r.info # None THEN Some(r.info[1].raw_query) ELSE last_ok
            /\ status_var' = c.status
            /\ result_var' = c.result
            /\ save_btn' = c.save
            /\ current_raw' = c.raw
            /\ effects' = c.effects
    /\ handler' = "do_check"
    /\ escaped' = None
    /\ UNCHANGED <<API_KEY, entry, alive, dirExists, file, call>>

\* mutant of SaveOutcome: waybar is signalled before the file is written
SaveOutcomeNotifyFirst(raw, fs, o) ==
    IF ~Truthy(raw)
    THEN [status |-> "Nothing to save", dir |-> dirExists, file |-> file,
          effects |-> <<>>, escaped |-> None, alive |-> alive]
    ELSE LET s == save_override(raw[1], fs)
             n == reload_waybar(o)
         IN IF s.raised # None
            THEN [status |-> status_var, dir |-> s.dir, file |-> s.file,
                  effects |-> n.effects \o s.effects, escaped |-> s.raised,
                  alive |-> alive]
            ELSE [status |-> status_var, dir |-> s.dir, file |-> s.file,
                  effects |-> n.effects \o s.effects \o <<Effect("destroy", "ok")>>,
                  escaped |-> None, alive |-> FALSE]

\* lines 135-140: do_save once raw is read, under file-system outcome fs and
\* notifier outcome o; an exception that leaves a callee leaves the handler
SaveOutcome(raw, fs, o) ==
    IF ~Truthy(raw)
    THEN [status |-> "Nothing to save", dir |-> dirExists, file |-> file,
          effects |-> <<>>, escaped |-> None, alive |-> alive]
    ELSE LET s == save_override(raw[1], fs)
             n == reload_waybar(o)
         IN IF s.raised # None
            THEN [status |-> status_var, dir |-> s.dir, file |-> s.file,
                  effects |-> s.effects, escaped |-> s.raised, alive |-> alive]
            ELSE IF n.raised # None
            THEN [status |-> status_var, dir |-> s.dir, file |-> s.file,
                  effects |-> s.effects \o n.effects, escaped |-> n.raised,
                  alive |-> alive]
            ELSE [status |-> status_var, dir |-> s.dir, file |-> s.file,
                  effects |-> s.effects \o n.effects \o <<Effect("destroy", "ok")>>,
                  escaped |-> None, alive |-> FALSE]

\* mutant of do_save: the text of the entry is saved, not the stored query
do_save_from_entry(fs, o) == SaveOutcome(Some(entry), fs, o)

\* do_save()
do_save(fs, o) ==
    LET raw == current_raw
    IN SaveOutcome(raw, fs, o)

\* the Save button's command runs
DoSaveHandler ==
    /\ alive
    /\ \E fs \in PossibleFs, o \in NotifyOutcomes :
         LET r == do_save(fs, o)
         IN /\ status_var' = r.status
            /\ dirExists' = r.dir
            /\ file' = r.file
            /\ effects' = r.effects
            /\ escaped' = r.escaped
            /\ alive' = r.alive
    /\ handler' = "do_save"
    /\ UNCHANGED <<API_KEY, entry, result_var, save_btn, current_raw, check_ret,
                   last_ok, call>>

\* a click on Save: a disabled ttk.Button does not run its command
DoSave == save_btn = "normal" /\ DoSaveHandler

\* the Cancel button's command, root.destroy
Cancel ==
    /\ alive
    /\ alive' = FALSE
    /\ handler' = "cancel"
    /\ effects' = <<Effect("destroy", "ok")>>
    /\ escaped' = None
    /\ UNCHANGED <<API_KEY, entry, status_var, result_var, save_btn, current_raw,
                   check_ret, last_ok, dirExists, file, call>>

\* the user types a character at the end of the entry: no callback is bound
\* to a change of its text
TypeChar ==
    /\ alive
    /\ Len(entry) < MaxEntryLen
    /\ \E c \in EntryAlphabet : entry' = Append(entry, c)
    /\ UNCHANGED <<API_KEY, status_var, result_var, save_btn, current_raw, alive,
                   check_ret, last_ok, dirExists, file, handler, effects, escaped,
                   call>>

\* the user deletes the last character of the entry
Backspace ==
    /\ alive
    /\ entry # <<>>
    /\ entry' = SubSeq(entry, 1, Len(entry) - 1)
    /\ UNCHANGED <<API_KEY, status_var, result_var, save_btn, current_raw, alive,
                   check_ret, last_ok, dirExists, file, handler, effects, escaped,
                   call>>

Init == InitEnv /\ InitDialog
Next == DoCheck \/ DoSave \/ Cancel \/ TypeChar \/ Backspace
Spec == Init /\ [][Next]_vars

\* the callbacks run in any order, whatever the state of the Save button
NextHandlers == DoCheck \/ DoSaveHandler \/ Cancel \/ TypeChar \/ Backspace
SpecHandlers == Init /\ [][NextHandlers]_vars

\* ================================================================ claims
\* the trimmed form of s, stated without Strip: from its first to its last
\* character that is not whitespace
Trimmed(s) ==
    LET idx == {i \in 1..Len(s) : s[i] \notin Whitespace}
    IN IF idx = {} THEN <<>>
       ELSE SubSeq(s, CHOOSE i \in idx : \A j \in idx : i <= j,
                      CHOOSE i \in idx : \A j \in idx : j <= i)

\* the operations of an effect list, in order
Ops(es) == [i \in DOMAIN es |-> es[i].op]
\* how many times operation op occurs in an effect list
Count(es, op) == Cardinality({i \in DOMAIN es : es[i].op = op})
\* the effect list holds the operation op with result res
Did(es, op, res) == \E i \in DOMAIN es : es[i] = Effect(op, res)

\* a step in which do_check ran: the callbacks leave the entry's text alone and
\* the edits leave handler alone
CheckStep == handler' = "do_check" /\ entry' = entry
\* a step in which do_save ran
SaveStep == handler' = "do_save" /\ entry' = entry
\* a step in which the Cancel button's command ran
CancelStep == handler' = "cancel" /\ entry' = entry

\* ---- C1 (as claimed): every edit of the entry's text disables Save and
\* clears the result text
C1_EditResetsSave ==
    [][entry' # entry => (save_btn' = "disabled" /\ result_var' = <<>>)]_vars

\* ---- C2
\* what a Check leaves behind, label text being the result text a successful
\* Check shows for the label
C2_Post(shown(_)) ==
    /\ save_btn' = "normal" <=> check_ret'.info # None
    /\ check_ret'.info # None =>
         /\ result_var' = shown(check_ret'.info[1].label)
         /\ status_var' = "OK"
         /\ current_raw' = Some(check_ret'.info[1].raw_query)
         /\ check_ret'.info[1].raw_query = Trimmed(entry)
    /\ check_ret'.info = None =>
         /\ check_ret'.err # None
         /\ status_var' = check_ret'.err[1]
         /\ result_var' = <<>>
         /\ save_btn' = "disabled"

AsLabel(label) == label
AsArrowLabel(label) == <<ARROW, SPACE>> \o label

C4_SaveErrorShown ==
    (handler = "do_save"
       /\ \E op \in {"makedirs", "open", "write"} : Did(effects, op, "error"))
    => (escaped = None /\ status_var \notin {"OK", "Enter location and press Check"})

\* ---- C5
\* every character of s is whitespace
Blank(s) == \A i \in 1..Len(s) : s[i] \in Whitespace

\* C5 (as claimed): geocode of an input whose trimmed form is empty fails with
\* "Enter a ZIP or city" and issues no request, with or without a credential
C5_EmptyAlwaysInputError ==
    (call.fn = "geocode" /\ Blank(call.arg))
    => /\ call.ret.info = None
       /\ call.ret.err = Some("Enter a ZIP or city")
       /\ call.ret.reqs = <<>>

\* C5 (amended): geocode of an input whose trimmed form is empty issues no
\* request and fails: with "Enter a ZIP or city" when a credential is
\* configured, with "Missing OWM_API_KEY" when none is (the credential is
\* tested first)
C5_EmptyInput ==
    (call.fn = "geocode" /\ Blank(call.arg))
    => /\ call.ret.info = None
       /\ call.ret.reqs = <<>>
       /\ call.ret.err = IF API_KEY = Some(Key) THEN Some("Enter a ZIP or city")
                         ELSE Some("Missing OWM_API_KEY")

C5_Witness ==
    /\ call.fn = "geocode"
    /\ call.arg = <<SPACE, SPACE>>
    /\ API_KEY = Some(Key)
    /\ call.ret.err = Some("Enter a ZIP or city")
    /\ call.ret.reqs = <<>>

\* ---- C6
\* s without its commas and spaces
Rest(s) == SelectSeq(s, LAMBDA x : x \notin {COMMA, SPACE})
AllDigits(s) == \A i \in 1..Len(s) : s[i] \in Digits

\* the request of a geocode call that got as far as the network follows the
\* classification zip(q) of the trimmed input q
C6_Post(zip(_)) ==
    (call.fn = "geocode" /\ API_KEY = Some(Key) /\ ~Blank(call.arg))
    => LET q == Trimmed(call.arg) IN
       /\ Len(call.ret.reqs) = 1
       /\ IF zip(q)
          THEN /\ call.ret.reqs[1].endpoint = "zip"
               /\ call.ret.reqs[1].zip =
                    IF \E i \in 1..Len(q) : q[i] = COMMA THEN q ELSE q \o <<COMMA, 85, 83>>
          ELSE /\ call.ret.reqs[1].endpoint = "direct"
               /\ call.ret.reqs[1].q = q

ZipIfAllDigits(q) == AllDigits(Rest(q))
ZipIfSomeAllDigits(q) == Rest(q) # <<>> /\ AllDigits(Rest(q))

\* C6 (as claimed): the ZIP path is taken exactly when every character left
\* after removing commas and spaces is a digit, also when nothing is left
C6_ZipWhenAllDigits == C6_Post(ZipIfAllDigits)

\* C6 (amended): the ZIP path is taken exactly when at least one character is
\* left after removing commas and spaces and every one left is a digit; an
\* input of commas alone goes the free-form path.  On the ZIP path the
\* parameter is the input when it holds a comma, the input and ",US" otherwise
C6_Classification == C6_Post(ZipIfSomeAllDigits)

C6_Witness ==
    /\ call.fn = "geocode"
    /\ API_KEY = Some(Key)
    /\ call.arg = <<SPACE, 53, COMMA>>
    /\ call.ret.reqs = <<[endpoint |-> "zip", zip |-> <<53, COMMA>>, appid |-> Key]>>

\* ---- C7: a Check issues at most one request and nothing else issues any;
\* when the request fails in transport the error geocode returns is "Request
\* error: " and the cause, the status line shows exactly that and Save is
\* disabled
C7_OneRequest ==
    /\ Count(effects, "urlopen") <= (IF handler = "do_check" THEN 1 ELSE 0)
    /\ (handler = "do_check" /\ Did(effects, "urlopen", "error"))
       => /\ check_ret.info = None
          /\ \E c \in Causes : check_ret.err = Some("Request error: " \o c)
          /\ status_var = check_ret.err[1]
          /\ result_var = <<>>
          /\ save_btn = "disabled"

\* a transport failure after a successful Check
C7_Witness ==
    /\ handler = "do_check"
    /\ effects = <<Effect("urlopen", "error")>>
    /\ status_var = "Request error: timed out"
    /\ current_raw # None

\* ---- C8: after a save_override call that returned, whatever calls came
\* before it, the directory exists and the file read back is the trimmed
\* argument of that call: the argument itself when it was already trimmed
C8_LastWriteWins ==
    (call.fn = "save_override" /\ call.raised = None)
    => /\ dirExists
       /\ file # None
       /\ UTF8Decode(file[1]) = Trimmed(call.arg)
       /\ (Trimmed(call.arg) = call.arg => UTF8Decode(file[1]) = call.arg)

\* a second or later call, with an argument that needs trimming and encoding
C8_Witness ==
    /\ call.fn = "save_override"
    /\ call.n >= 2
    /\ call.raised = None
    /\ call.arg = <<SPACE, 233>>
    /\ file = Some(<<195, 169>>)

\* ---- C9: once the write of a Save has completed, whatever the pkill does,
\* the file holds the stored query, the status line is left as it was, no
\* exception leaves the handler and the window is destroyed
C9_NotifyFailureIgnored ==
    [][(SaveStep /\ Did(effects', "write", "ok"))
         => /\ file' = Some(UTF8Encode(current_raw[1]))
            /\ status_var' = status_var
            /\ escaped' = None
            /\ ~alive']_vars

C9_Witness ==
    /\ handler = "do_save"
    /\ Did(effects, "pkill", "pkill_missing")
    /\ file = Some(UTF8Encode(current_raw[1]))
    /\ ~alive

\* ---- C10: only a Save with a stored query changes the file or signals;
\* Check, Cancel and edits leave the file alone and send no signal; what a
\* Save writes is the raw_query of the most recent Check that got a result
C10_OnlySaveWrites ==
    [][/\ (file' # file \/ dirExists' # dirExists)
            => (SaveStep /\ current_raw # None /\ current_raw[1] # <<>>)
       /\ (CheckStep \/ CancelStep)
            => /\ file' = file
               /\ Count(effects', "pkill") = 0
               /\ Count(effects', "write") = 0
       /\ (SaveStep /\ Did(effects', "write", "ok"))
            => /\ last_ok # None
               /\ file' = Some(UTF8Encode(last_ok[1]))]_vars

\* a Save after two successful Checks and an edit writes the second query
C10_Witness ==
    /\ handler = "do_save"
    /\ Did(effects, "write", "ok")
    /\ last_ok = Some(<<80>>)
    /\ file = Some(<<80>>)
    /\ entry = <<80, 53>>
====
